---- MODULE Spec2Model ----
(***************************************************************************)
(* Model of GetSmallVersionAi.py: a two-pass directory comparison that     *)
(* exports differing files into <output_root>/Original and                 *)
(* <output_root>/Modified, with an optional copyright-year rewrite of the  *)
(* files exported on the B side.                                           *)
(*                                                                         *)
(* File contents are sequences of tokens.  A token stands for a run of     *)
(* bytes that the copyright regex treats as a unit: the word "Copyright",  *)
(* the marker "(c)", a four-digit year, the company suffix, one            *)
(* whitespace character, a comma, a dash, some other character, or a byte  *)
(* that is not valid UTF-8.  Digits occur only as whole four-digit years.  *)
(* A path is a sequence of components and a component is a sequence of     *)
(* characters, "." being the extension separator.                          *)
(***************************************************************************)
EXTENDS Integers, Sequences, FiniteSets, TLC

VARIABLES
  \* ---- the run of main ----
  argv,             \* the command line as typed (None = flag not given)
  yaml,             \* the configuration document at args.config, or NoFile
  exclude_dirs, exclude_files, exclude_exts,
  output_root, verbose, update_copyright, use_new_format,
  files,            \* the filesystem: path -> bytes, for every regular file
  dirs,             \* the filesystem: set of existing directories
  pc,               \* position of main
  stack,            \* os.walk: one frame per directory being walked
  printed,          \* lines written to stdout (tag, path)
  exit_status,      \* process exit status, None while running
  linesep,          \* os.linesep of the platform
  \* ---- history ----
  files0,           \* the filesystem when main started
  compared,         \* compare_and_extract has been entered
  fellBack,         \* destinations for which the except branch ran
  raisedAt,         \* destination whose fallback copy raised, or None
  \* ---- the rewriter applied to one content ----
  src, dst1, dst2, fmt, rphase

vars == <<argv, yaml, exclude_dirs, exclude_files, exclude_exts, output_root,
          verbose, update_copyright, use_new_format, files, dirs, pc, stack,
          printed, exit_status, linesep, files0, compared, fellBack, raisedAt,
          src, dst1, dst2, fmt, rphase>>

None == "None"

\* an optional command-line value: not given (Python's None), or given
NotGiven == [given |-> FALSE, value |-> None]

Given(v) == [given |-> TRUE, value |-> v]

NoPath == <<>>

Running == -1

(***************************************************************************)
(* Content tokens                                                          *)
(***************************************************************************)
COPYRIGHT == "Copyright"
CMARK == "(c)"
DASH == "-"
COMMA == ","
SP == " "
CR == "CR"
LF == "LF"
XCHAR == "x"
BAD == "xFF"
SUFFIX == "Insyde Software Corp. All Rights Reserved."
CURRENT_YEAR == "2026"
Years == {"2013", "2020", "2026"}

IsSpace(t) == t \in {SP, CR, LF}

IsYear(t) == t \in Years

At(s, i) == IF i >= 1 /\ i <= Len(s) THEN s[i] ELSE "EOF"

RECURSIVE SkipSpace(_, _)
SkipSpace(s, i) == IF IsSpace(At(s, i)) THEN SkipSpace(s, i + 1) ELSE i

(***************************************************************************)
(* re.match of the pattern at position i of s.  Every optional group is    *)
(* greedy and no alternative parse exists once a group has matched, so the *)
(* match is computed left to right.  end is the index after the match.     *)
(***************************************************************************)
pattern(s, i) ==
  LET i1 == SkipSpace(s, i + 1)
      i2 == IF At(s, i1) = CMARK THEN SkipSpace(s, i1 + 1) ELSE i1
      j  == SkipSpace(s, i2 + 1)
      k  == SkipSpace(s, j + 1)
      range == IsYear(At(s, i2)) /\ At(s, j) = DASH /\ IsYear(At(s, k))
      i3 == IF range THEN k ELSE i2
      i4 == i3 + 1
      i5 == IF At(s, i4) = COMMA THEN SkipSpace(s, i4 + 1) ELSE i4
  IN IF At(s, i) = COPYRIGHT /\ IsYear(At(s, i3)) /\ At(s, i5) = SUFFIX
     THEN [ok |-> TRUE, end |-> i5 + 1, g4 |-> At(s, i3), g6 |-> At(s, i5)]
     ELSE [ok |-> FALSE, end |-> i, g4 |-> None, g6 |-> None]

replacement_drift(m, new_format) ==
  IF new_format
  THEN <<COPYRIGHT, SP, m.g4, SP, m.g6>>
  ELSE <<COPYRIGHT, SP, CMARK, SP, m.g4, SP, DASH, SP, CURRENT_YEAR, COMMA, SP, m.g6>>

replacement_logic(m, new_format) ==
  IF new_format
  THEN <<COPYRIGHT, SP, CURRENT_YEAR, SP, m.g6>>
  ELSE <<COPYRIGHT, SP, CMARK, SP, CURRENT_YEAR, COMMA, SP, m.g6>>

RECURSIVE re_sub_from(_, _, _)
re_sub_from(s, i, new_format) ==
  IF i > Len(s) THEN <<>>
  ELSE LET m == pattern(s, i)
       IN IF m.ok
          THEN replacement_logic(m, new_format) \o re_sub_from(s, m.end, new_format)
          ELSE <<s[i]>> \o re_sub_from(s, i + 1, new_format)

re_sub(s, new_format) == re_sub_from(s, 1, new_format)

(***************************************************************************)
(* open(path, "r", encoding="utf-8").read(): strict decoding, universal    *)
(* newlines.  open(path, "w").write(): "\n" becomes os.linesep.            *)
(***************************************************************************)
Decodable(b) == \A i \in 1..Len(b) : b[i] # BAD

RECURSIVE read_text(_)
read_text(b) ==
  IF b = <<>> THEN <<>>
  ELSE IF b[1] = CR
       THEN IF At(b, 2) = LF
            THEN <<LF>> \o read_text(SubSeq(b, 3, Len(b)))
            ELSE <<LF>> \o read_text(Tail(b))
       ELSE <<b[1]>> \o read_text(Tail(b))

RECURSIVE write_text(_, _)
write_text(t, sep) ==
  IF t = <<>> THEN <<>>
  ELSE (IF t[1] = LF THEN sep ELSE <<t[1]>>) \o write_text(Tail(t), sep)

FaultNone == "none"
FaultWrite == "write"
FaultDisk == "disk"
Faults == {FaultNone, FaultWrite, FaultDisk}

copy_without_fallback(b, new_format, sep, fault) ==
  IF fault = FaultDisk
  THEN [bytes |-> <<>>, caught |-> TRUE, raised |-> TRUE]
  ELSE IF fault = FaultWrite \/ ~Decodable(b)
       THEN [bytes |-> <<>>, caught |-> TRUE, raised |-> FALSE]
       ELSE [bytes |-> write_text(re_sub(read_text(b), new_format), sep),
             caught |-> FALSE, raised |-> FALSE]

(***************************************************************************)
(* copy_with_copyright_update on the bytes b of src_path.                  *)
(*   fault = none : no filesystem error                                    *)
(*   fault = write: the write in the try block raises after the            *)
(*                  destination was opened; the fallback copy succeeds     *)
(*   fault = disk : as write, and shutil.copy2 in the except branch raises *)
(*                  too, so the exception leaves the function              *)
(* When the exception leaves the function the destination stays truncated. *)
(***************************************************************************)
copy_with_copyright_update(b, new_format, sep, fault) ==
  IF fault = FaultDisk
  THEN [bytes |-> <<>>, caught |-> TRUE, raised |-> TRUE]
  ELSE IF fault = FaultWrite \/ ~Decodable(b)
       THEN [bytes |-> b, caught |-> TRUE, raised |-> FALSE]
       ELSE [bytes |-> write_text(re_sub(read_text(b), new_format), sep),
             caught |-> FALSE, raised |-> FALSE]

(***************************************************************************)
(* Paths and the filesystem                                                *)
(***************************************************************************)
DOT == "."
CurDir == <<DOT>>
FileAL == <<"a", DOT, "l">>
FileDotL == <<DOT, "l">>
DirD == <<"d">>
ORIGINAL == <<"Original">>
MODIFIED == <<"Modified">>
DEFAULT_OUTPUT_ROOT == <<<<"MyDiffOutput">>>>
DEFAULT_VERBOSE == FALSE
DEFAULT_EXCLUDE_DIRS == {}
DEFAULT_EXCLUDE_FILES == {}
DEFAULT_EXCLUDE_EXTS == {}

IsPrefix(d, p) == Len(d) <= Len(p) /\ SubSeq(p, 1, Len(d)) = d

Under(fs, d) == {p \in DOMAIN fs : IsPrefix(d, p)}

Parents(p) == {SubSeq(p, 1, n) : n \in 1..(Len(p) - 1)}

\* os.path.exists(p) in the filesystem (fs, ds)
exists(fs, ds, p) == p \in DOMAIN fs \/ p \in ds

\* os.path.relpath(root, start) for a directory root at or below start
relpath(root, start) ==
  IF root = start THEN <<CurDir>> ELSE SubSeq(root, Len(start) + 1, Len(root))

join_flat(base, rel, file) == base \o <<file>>

\* os.path.join, as the filesystem resolves it: "." components vanish
join(base, rel, file) == base \o SelectSeq(rel, LAMBDA c : c # CurDir) \o <<file>>

\* os.makedirs(p, exist_ok=True)
makedirs(ds, p) == ds \cup {SubSeq(p, 1, n) : n \in 1..Len(p)}

rmtree_shallow(fs, root) ==
  [p \in {q \in DOMAIN fs : ~(IsPrefix(root, q) /\ Len(q) = Len(root) + 1)} |-> fs[p]]

\* shutil.rmtree(root): every file at or below root is gone
rmtree(fs, root) == [p \in {q \in DOMAIN fs : ~IsPrefix(root, q)} |-> fs[p]]

rmtree_dirs(ds, root) == {d \in ds : ~IsPrefix(root, d)}

\* one step of os.walk: the listing of directory d at the time it is entered
scandir(d) ==
  IF d \notin dirs
  THEN [root |-> d, files |-> {}, subdirs |-> {}]
  ELSE [root |-> d,
        files |-> {p[Len(d) + 1] : p \in {q \in DOMAIN files :
                                      IsPrefix(d, q) /\ Len(q) = Len(d) + 1}},
        subdirs |-> {p[Len(d) + 1] : p \in {q \in dirs :
                                      IsPrefix(d, q) /\ Len(q) = Len(d) + 1}}]

LastDot(name) ==
  IF \E i \in 1..Len(name) : name[i] = DOT
  THEN CHOOSE i \in 1..Len(name) :
         name[i] = DOT /\ \A j \in (i + 1)..Len(name) : name[j] # DOT
  ELSE 0

\* os.path.splitext(name)[1]: leading dots do not start an extension
splitext(name) ==
  LET dotIndex == LastDot(name)
  IN IF dotIndex > 0 /\ \E k \in 1..(dotIndex - 1) : name[k] # DOT
     THEN SubSeq(name, dotIndex, Len(name))
     ELSE <<>>

should_exclude_noext(rel_path, file_name, xdirs, xfiles, xexts) ==
  \/ \E i \in 1..Len(rel_path) : rel_path[i] \in xdirs
  \/ file_name \in xfiles

should_exclude(rel_path, file_name, xdirs, xfiles, xexts) ==
  \/ \E i \in 1..Len(rel_path) : rel_path[i] \in xdirs
  \/ file_name \in xfiles
  \/ splitext(file_name) \in xexts

cmp_shallow(fs, a, b) == b \in DOMAIN fs /\ Len(fs[a]) = Len(fs[b])

\* filecmp.cmp(a, b, shallow=False): a is a regular file; a b that is not a
\* regular file never compares equal
cmp(fs, a, b) == b \in DOMAIN fs /\ fs[a] = fs[b]

\* the filesystem after path p was written with bytes b
Put(fs, p, b) == [q \in DOMAIN fs \cup {p} |-> IF q = p THEN b ELSE fs[q]]

dirname(p) == SubSeq(p, 1, Len(p) - 1)

(***************************************************************************)
(* main: argument parsing and the merge of CLI, configuration and defaults *)
(***************************************************************************)
\* load_config: a missing file is an empty configuration
load_config(y) == IF y.exists THEN y.doc ELSE [k \in {} |-> None]

\* dict.get(key, default)
get(config, key, default) == IF key \in DOMAIN config THEN config[key] ELSE default

\* argparse: the namespace that parse_args builds from the command line
parse_args(av) ==
  [av EXCEPT !.output_root = IF @.given THEN @ ELSE Given(DEFAULT_OUTPUT_ROOT)]

\* <cli> if <cli> is not None else config.get(key, default)
Choose(cli, config, key, default) ==
  IF cli.given THEN cli.value ELSE get(config, key, default)

main_parse ==
  /\ pc = "start"
  /\ LET args == parse_args(argv)
         config == load_config(yaml)
     IN /\ exclude_dirs' = Choose(args.exclude_dirs, config, "exclude_dirs", DEFAULT_EXCLUDE_DIRS)
        /\ exclude_files' = Choose(args.exclude_files, config, "exclude_files", DEFAULT_EXCLUDE_FILES)
        /\ exclude_exts' = Choose(args.exclude_exts, config, "exclude_exts", DEFAULT_EXCLUDE_EXTS)
        /\ output_root' = Choose(args.output_root, config, "output_root", DEFAULT_OUTPUT_ROOT)
        /\ verbose' = (args.verbose \/ get(config, "verbose", DEFAULT_VERBOSE))
        /\ update_copyright' = (args.update_copyright \/ get(config, "update_copyright", FALSE))
        /\ use_new_format' = (args.new_copyright_format \/ get(config, "new_copyright_format", FALSE))
  /\ pc' = "prepare"
  /\ UNCHANGED <<argv, yaml, files, dirs, stack, printed, exit_status, linesep,
                 files0, compared, fellBack, raisedAt, src, dst1, dst2, fmt, rphase>>

(***************************************************************************)
(* prepare_output_dir                                                      *)
(***************************************************************************)
prepare_output_dir ==
  /\ pc = "prepare"
  /\ output_root \notin DOMAIN files
  /\ LET found == exists(files, dirs, output_root)
     IN /\ files' = IF found THEN rmtree(files, output_root) ELSE files
        /\ dirs' = makedirs(IF found THEN rmtree_dirs(dirs, output_root) ELSE dirs,
                            output_root)
        /\ printed' = IF found /\ verbose
                      THEN printed \cup {<<"CLEAN", output_root>>} ELSE printed
  /\ pc' = "compare"
  /\ UNCHANGED <<argv, yaml, exclude_dirs, exclude_files, exclude_exts, output_root,
                 verbose, update_copyright, use_new_format, stack, exit_status,
                 linesep, files0, compared, fellBack, raisedAt,
                 src, dst1, dst2, fmt, rphase>>

\* shutil.rmtree raises OSError: some files below the root may already be
\* gone; the run prints the error and exits with status 1
prepare_output_dir_error ==
  /\ pc = "prepare"
  /\ exists(files, dirs, output_root)
  /\ \E gone \in SUBSET Under(files, output_root) :
       files' = [p \in DOMAIN files \ gone |-> files[p]]
  /\ printed' = printed \cup {<<"ERROR", output_root>>}
                        \cup (IF verbose THEN {<<"CLEAN", output_root>>} ELSE {})
  /\ exit_status' = 1
  /\ pc' = "exited"
  /\ UNCHANGED <<argv, yaml, exclude_dirs, exclude_files, exclude_exts, output_root,
                 verbose, update_copyright, use_new_format, dirs, stack,
                 linesep, files0, compared, fellBack, raisedAt,
                 src, dst1, dst2, fmt, rphase>>

(***************************************************************************)
(* compare_and_extract                                                     *)
(***************************************************************************)
settings == <<argv, yaml, exclude_dirs, exclude_files, exclude_exts, output_root,
              verbose, update_copyright, use_new_format, linesep, files0>>

rewriter == <<src, dst1, dst2, fmt, rphase>>

\* lines 116-119 and 139-142: the B-side copy, rewritten when enabled
export_b(fs, path_b, target_b, fault) ==
  IF update_copyright
  THEN LET r == copy_with_copyright_update(fs[path_b], use_new_format, linesep, fault)
       IN [fs |-> Put(fs, target_b, r.bytes), caught |-> r.caught, raised |-> r.raised]
  ELSE [fs |-> Put(fs, target_b, fs[path_b]), caught |-> FALSE, raised |-> FALSE]

\* os.walk leaves every directory whose files and sub-directories are done
RECURSIVE Unwind(_)
Unwind(st) ==
  IF st # <<>> /\ Head(st).files = {} /\ Head(st).subdirs = {}
  THEN Unwind(Tail(st)) ELSE st

begin_pass_a ==
  /\ pc = "compare"
  /\ pc' = "passA"
  /\ stack' = Unwind(<<scandir(argv.folder_a)>>)
  /\ compared' = TRUE
  /\ UNCHANGED <<settings, rewriter, files, dirs, printed, exit_status, fellBack, raisedAt>>

\* os.walk enters the next sub-directory of the directory on top
walk_descend ==
  /\ pc \in {"passA", "passB"}
  /\ stack # <<>>
  /\ Head(stack).files = {}
  /\ \E d \in Head(stack).subdirs :
       stack' = Unwind(<<scandir(Head(stack).root \o <<d>>),
                         [Head(stack) EXCEPT !.subdirs = @ \ {d}]>> \o Tail(stack))
  /\ UNCHANGED <<settings, rewriter, files, dirs, pc, printed, exit_status,
                 compared, fellBack, raisedAt>>

\* Pass 1, the body of the loop over the files of one directory of folder_a
process_file_a ==
  /\ pc = "passA"
  /\ stack # <<>>
  /\ \E file \in Head(stack).files, fault \in Faults :
       LET top == Head(stack)
           rel_path == relpath(top.root, argv.folder_a)
           path_a == top.root \o <<file>>
           path_b == join(argv.folder_b, rel_path, file)
           target_a == join(output_root \o <<ORIGINAL>>, rel_path, file)
           target_b == join(output_root \o <<MODIFIED>>, rel_path, file)
           skip == should_exclude(rel_path, file, exclude_dirs, exclude_files, exclude_exts)
           differs == ~exists(files, dirs, path_b) \/ ~cmp(files, path_a, path_b)
           fs1 == Put(files, target_a, files[path_a])
           ds1 == makedirs(dirs, dirname(target_a))
           both == exists(fs1, ds1, path_b)
           ex == export_b(fs1, path_b, target_b, fault)
           done == Unwind(<<[top EXCEPT !.files = @ \ {file}]>> \o Tail(stack))
       IN IF skip \/ ~differs
          THEN /\ stack' = done
               /\ UNCHANGED <<files, dirs, pc, printed, exit_status, fellBack, raisedAt>>
          ELSE IF ~both
          THEN /\ files' = fs1
               /\ dirs' = ds1
               /\ printed' = IF verbose
                             THEN printed \cup {<<"Only in A", rel_path \o <<file>>>>}
                             ELSE printed
               /\ stack' = done
               /\ UNCHANGED <<pc, exit_status, fellBack, raisedAt>>
          ELSE /\ files' = ex.fs
               /\ dirs' = makedirs(ds1, dirname(target_b))
               /\ fellBack' = IF ex.caught THEN fellBack \cup {target_b} ELSE fellBack
               /\ IF ex.raised
                  THEN /\ pc' = "crashed"
                       /\ exit_status' = 1
                       /\ raisedAt' = target_b
                       /\ UNCHANGED <<stack, printed>>
                  ELSE /\ printed' = IF verbose
                                     THEN printed \cup {<<"Modified", rel_path \o <<file>>>>}
                                     ELSE printed
                       /\ stack' = done
                       /\ UNCHANGED <<pc, exit_status, raisedAt>>
  /\ UNCHANGED <<settings, rewriter, compared>>

begin_pass_b ==
  /\ pc = "passA"
  /\ stack = <<>>
  /\ pc' = "passB"
  /\ stack' = Unwind(<<scandir(argv.folder_b)>>)
  /\ UNCHANGED <<settings, rewriter, files, dirs, printed, exit_status,
                 compared, fellBack, raisedAt>>

\* Pass 2, the body of the loop over the files of one directory of folder_b
process_file_b ==
  /\ pc = "passB"
  /\ stack # <<>>
  /\ \E file \in Head(stack).files, fault \in Faults :
       LET top == Head(stack)
           rel_path == relpath(top.root, argv.folder_b)
           path_b == top.root \o <<file>>
           path_a == join(argv.folder_a, rel_path, file)
           target_b == join(output_root \o <<MODIFIED>>, rel_path, file)
           skip == should_exclude(rel_path, file, exclude_dirs, exclude_files, exclude_exts)
           ex == export_b(files, path_b, target_b, fault)
           done == Unwind(<<[top EXCEPT !.files = @ \ {file}]>> \o Tail(stack))
       IN IF skip \/ exists(files, dirs, path_a)
          THEN /\ stack' = done
               /\ UNCHANGED <<files, dirs, pc, printed, exit_status, fellBack, raisedAt>>
          ELSE /\ files' = ex.fs
               /\ dirs' = makedirs(dirs, dirname(target_b))
               /\ fellBack' = IF ex.caught THEN fellBack \cup {target_b} ELSE fellBack
               /\ IF ex.raised
                  THEN /\ pc' = "crashed"
                       /\ exit_status' = 1
                       /\ raisedAt' = target_b
                       /\ UNCHANGED <<stack, printed>>
                  ELSE /\ printed' = IF verbose
                                     THEN printed \cup {<<"Only in B", rel_path \o <<file>>>>}
                                     ELSE printed
                       /\ stack' = done
                       /\ UNCHANGED <<pc, exit_status, raisedAt>>
  /\ UNCHANGED <<settings, rewriter, compared>>

\* main, lines 205-206: both passes are over
main_success ==
  /\ pc = "passB"
  /\ stack = <<>>
  /\ pc' = "done"
  /\ exit_status' = 0
  /\ printed' = printed \cup {<<"SUCCESS", output_root>>}
  /\ UNCHANGED <<settings, rewriter, files, dirs, stack, compared, fellBack, raisedAt>>

Next ==
  \/ main_parse
  \/ prepare_output_dir
  \/ prepare_output_dir_error
  \/ begin_pass_a
  \/ walk_descend
  \/ process_file_a
  \/ begin_pass_b
  \/ process_file_b
  \/ main_success

(***************************************************************************)
(* Initial states of a run                                                 *)
(***************************************************************************)
FolderA == <<<<"A">>>>
FolderB == <<<<"B">>>>
\* -o values: a root disjoint from both trees, and a root equal to tree A.
\* (A root strictly inside a tree makes os.walk descend into its own output
\* and re-export it at growing depth; that case is left out of the runs.)
OutRoots == {<<<<"O">>>>, FolderA}
RelFiles == {<<FileAL>>, <<DirD, FileDotL>>}
Absent == <<"absent">>
Stale == <<"stale">>
LineOldRange == <<COPYRIGHT, SP, CMARK, SP, "2013", SP, DASH, SP, "2020", COMMA, SP, SUFFIX>>
LineOld(y) == <<COPYRIGHT, SP, CMARK, SP, y, COMMA, SP, SUFFIX>>
LineNew(y) == <<COPYRIGHT, SP, y, SP, SUFFIX>>
TextOld == LineOldRange \o <<CR, LF>>
Plain == <<XCHAR>>
Binary == <<BAD>>
ContentsA == {TextOld, Plain}
ContentsB == {TextOld, Binary}
TreesA == [RelFiles -> ContentsA \cup {Absent}]
TreesB == [RelFiles -> ContentsB \cup {Absent}]
StaleRel == <<<<ORIGINAL, FileAL>>, <<<<"junk">>>>, <<MODIFIED, DirD, FileDotL>>>>
MaxStale == 1
LineSeps == {<<LF>>, <<CR, LF>>}

Min(a, b) == IF a < b THEN a ELSE b

StaleUnder(root, k) == {root \o StaleRel[i] : i \in 1..Min(k, Len(StaleRel))}

TreeFiles(base, t) == {base \o r : r \in {q \in RelFiles : t[q] # Absent}}

MkFiles(ta, tb, stale) ==
  [p \in TreeFiles(FolderA, ta) \cup TreeFiles(FolderB, tb) \cup stale |->
     IF p \in stale THEN Stale
     ELSE IF p \in TreeFiles(FolderA, ta)
          THEN ta[SubSeq(p, Len(FolderA) + 1, Len(p))]
          ELSE tb[SubSeq(p, Len(FolderB) + 1, Len(p))]]

MkDirs(fs) == {FolderA, FolderB} \cup UNION {Parents(p) : p \in DOMAIN fs}

EmptyDoc == [k \in {} |-> None]

InitLocals ==
  /\ exclude_dirs = {} /\ exclude_files = {} /\ exclude_exts = {}
  /\ output_root = NoPath
  /\ verbose = FALSE /\ update_copyright = FALSE /\ use_new_format = FALSE
  /\ stack = <<>> /\ printed = {} /\ exit_status = Running
  /\ compared = FALSE /\ fellBack = {} /\ raisedAt = NoPath

RewriterIdle ==
  /\ src = <<>> /\ dst1 = <<>> /\ dst2 = <<>> /\ fmt = FALSE /\ rphase = "idle"

Optional(S) == {NotGiven} \cup {Given(v) : v \in S}

ArgvRun ==
  [folder_a : {FolderA}, folder_b : {FolderB},
   output_root : {Given(o) : o \in OutRoots},
   verbose : {FALSE},
   update_copyright : BOOLEAN, new_copyright_format : BOOLEAN,
   exclude_dirs : Optional({{DirD}}),
   exclude_files : Optional({{FileDotL}}),
   exclude_exts : Optional({{FileDotL}})]

Init ==
  /\ pc = "start"
  /\ argv \in ArgvRun
  /\ yaml = [exists |-> FALSE, doc |-> EmptyDoc]
  /\ linesep \in LineSeps
  /\ \E ta \in TreesA, tb \in TreesB, k \in 0..MaxStale :
       /\ files = MkFiles(ta, tb, StaleUnder(argv.output_root.value, k))
       /\ dirs = MkDirs(files)
       /\ files0 = files
  /\ InitLocals
  /\ RewriterIdle

Spec == Init /\ [][Next]_vars

(***************************************************************************)
(* The merge of command line, configuration document and defaults, over    *)
(* every combination of given flags and a range of documents, on one fixed *)
(* pair of trees.                                                          *)
(***************************************************************************)
ConfigKeys == {"exclude_dirs", "exclude_files", "exclude_exts", "verbose",
               "output_root", "update_copyright", "new_copyright_format"}
ConfigOut == <<<<"Y">>>>
CliOut == <<<<"O">>>>
FileM == <<DOT, "m">>
DirE == <<"e">>

FullDoc ==
  [exclude_dirs |-> {DirE}, exclude_files |-> {FileM}, exclude_exts |-> {FileM},
   verbose |-> TRUE, output_root |-> ConfigOut, update_copyright |-> TRUE,
   new_copyright_format |-> TRUE]

Docs ==
  {[exists |-> FALSE, doc |-> EmptyDoc]} \cup
  {[exists |-> TRUE, doc |-> [k \in K |-> FullDoc[k]]] :
     K \in {{}, ConfigKeys} \cup {{k} : k \in ConfigKeys}}

ArgvConfig ==
  [folder_a : {FolderA}, folder_b : {FolderB},
   output_root : Optional({CliOut}),
   verbose : BOOLEAN,
   update_copyright : BOOLEAN, new_copyright_format : BOOLEAN,
   exclude_dirs : Optional({{DirD}}),
   exclude_files : Optional({{FileDotL}}),
   exclude_exts : Optional({{FileDotL}})]

TreeAConfig == [r \in RelFiles |-> IF r = <<FileAL>> THEN Plain ELSE TextOld]

TreeBConfig == [r \in RelFiles |-> IF r = <<FileAL>> THEN Binary ELSE Absent]

InitConfig ==
  /\ pc = "start"
  /\ argv \in ArgvConfig
  /\ yaml \in Docs
  /\ linesep = <<LF>>
  /\ files = MkFiles(TreeAConfig, TreeBConfig,
                     UNION {StaleUnder(o, 1) : o \in {CliOut, ConfigOut, DEFAULT_OUTPUT_ROOT}})
  /\ dirs = MkDirs(files)
  /\ files0 = files
  /\ InitLocals
  /\ RewriterIdle

SpecConfig == InitConfig /\ [][Next]_vars

(***************************************************************************)
(* The rewriter on its own: copy_with_copyright_update applied to one      *)
(* content, and then to its own output.                                    *)
(***************************************************************************)
MaxPieces == 3
Pieces ==
  {<<COPYRIGHT>>, <<"2020">>, <<COMMA>>, <<SP>>, <<CR>>, <<LF>>, <<XCHAR>>,
   <<SUFFIX>>, <<BAD>>,
   LineOldRange, LineOld(CURRENT_YEAR), LineNew("2020"), LineNew(CURRENT_YEAR)}

RECURSIVE Flatten(_)
Flatten(ps) == IF ps = <<>> THEN <<>> ELSE Head(ps) \o Flatten(Tail(ps))

Inputs == {Flatten(ps) : ps \in UNION {[1..n -> Pieces] : n \in 0..MaxPieces}}

InitRewrite ==
  /\ src \in Inputs
  /\ fmt \in BOOLEAN
  /\ linesep \in LineSeps
  /\ dst1 = <<>> /\ dst2 = <<>> /\ rphase = "src"
  /\ pc = "idle"
  /\ argv = NotGiven /\ yaml = [exists |-> FALSE, doc |-> EmptyDoc]
  /\ files = EmptyDoc /\ dirs = {} /\ files0 = EmptyDoc
  /\ InitLocals

rewrite_once ==
  /\ rphase = "src"
  /\ dst1' = copy_with_copyright_update(src, fmt, linesep, FaultNone).bytes
  /\ rphase' = "once"
  /\ UNCHANGED <<settings, files, dirs, pc, stack, printed, exit_status,
                 compared, fellBack, raisedAt, src, dst2, fmt>>

rewrite_twice ==
  /\ rphase = "once"
  /\ dst2' = copy_with_copyright_update(dst1, fmt, linesep, FaultNone).bytes
  /\ rphase' = "twice"
  /\ UNCHANGED <<settings, files, dirs, pc, stack, printed, exit_status,
                 compared, fellBack, raisedAt, src, dst1, fmt>>

NextRewrite == rewrite_once \/ rewrite_twice

SpecRewrite == InitRewrite /\ [][NextRewrite]_vars

(***************************************************************************)
(* Properties                                                              *)
(***************************************************************************)
DotPositions(name) == {i \in 1..Len(name) : name[i] = DOT}

SetMax(S) == CHOOSE x \in S : \A y \in S : y <= x

\* the substring of the name from its last "." inclusive
ExtLastDot(name) ==
  IF DotPositions(name) = {} THEN <<>>
  ELSE SubSeq(name, SetMax(DotPositions(name)), Len(name))

\* the same, but a name whose last "." has only "." before it has no extension
ExtAfterStem(name) ==
  IF \E i \in DotPositions(name) : \E k \in 1..(i - 1) : name[k] # DOT
  THEN ExtLastDot(name) ELSE <<>>

RelDirParts(rel) ==
  IF Len(rel) = 1 THEN {CurDir} ELSE {rel[i] : i \in 1..(Len(rel) - 1)}

ExcludedBy(rel, Ext(_)) ==
  \/ RelDirParts(rel) \cap exclude_dirs # {}
  \/ rel[Len(rel)] \in exclude_files
  \/ Ext(rel[Len(rel)]) \in exclude_exts

Excluded(rel) == ExcludedBy(rel, ExtAfterStem)

OutsideInputs ==
  \A base \in {FolderA, FolderB} :
    ~IsPrefix(output_root, base) /\ ~IsPrefix(base, output_root)

InA0(rel) == FolderA \o rel \in DOMAIN files0

InB0(rel) == FolderB \o rel \in DOMAIN files0

SameInBoth(rel) ==
  InA0(rel) /\ InB0(rel) /\ files0[FolderA \o rel] = files0[FolderB \o rel]

OriginalOf(rel) == output_root \o <<ORIGINAL>> \o rel

ModifiedOf(rel) == output_root \o <<MODIFIED>> \o rel

RelOf(p) == SubSeq(p, Len(output_root) + 2, Len(p))

\* C1: after a complete run with the output root outside both trees,
\* Original/<rel> exists exactly for the non-excluded files of A that are
\* absent from B or differ from B's copy, and holds A's bytes, whatever the
\* copyright settings; nothing else is under Original/.
C1_OriginalIffDiffers ==
  (pc = "done" /\ OutsideInputs) =>
    /\ \A p \in Under(files, output_root \o <<ORIGINAL>>) : RelOf(p) \in RelFiles
    /\ \A rel \in RelFiles :
         /\ OriginalOf(rel) \in DOMAIN files <=>
              (InA0(rel) /\ ~Excluded(rel) /\ ~SameInBoth(rel))
         /\ OriginalOf(rel) \in DOMAIN files =>
              files[OriginalOf(rel)] = files0[FolderA \o rel]

C1_Witness ==
  /\ pc = "done" /\ OutsideInputs /\ update_copyright
  /\ OriginalOf(<<FileAL>>) \in DOMAIN files
  /\ InB0(<<FileAL>>)
  /\ SameInBoth(<<DirD, FileDotL>>)
  /\ ~Excluded(<<DirD, FileDotL>>)
  /\ OriginalOf(<<DirD, FileDotL>>) \notin DOMAIN files

\* C2: after a complete run with the output root outside both trees,
\* Modified/<rel> exists exactly for the non-excluded files of B that are
\* absent from A or differ from A's copy, and with update_copyright disabled
\* it holds B's bytes; nothing else is under Modified/.
C2_ModifiedIffDiffers ==
  (pc = "done" /\ OutsideInputs) =>
    /\ \A p \in Under(files, output_root \o <<MODIFIED>>) : RelOf(p) \in RelFiles
    /\ \A rel \in RelFiles :
         /\ ModifiedOf(rel) \in DOMAIN files <=>
              (InB0(rel) /\ ~Excluded(rel) /\ ~SameInBoth(rel))
         /\ (ModifiedOf(rel) \in DOMAIN files /\ ~update_copyright) =>
              files[ModifiedOf(rel)] = files0[FolderB \o rel]

C2_Witness ==
  /\ pc = "done" /\ OutsideInputs /\ ~update_copyright
  /\ ~InA0(<<FileAL>>)
  /\ ModifiedOf(<<FileAL>>) \in DOMAIN files
  /\ InA0(<<DirD, FileDotL>>) /\ ~InB0(<<DirD, FileDotL>>)
  /\ OriginalOf(<<DirD, FileDotL>>) \in DOMAIN files
  /\ ModifiedOf(<<DirD, FileDotL>>) \notin DOMAIN files

\* the run produced no Original or Modified entry for rel: whatever is at
\* these paths was there, with the same bytes, before the run
NoEntryProduced(rel) ==
  \A p \in {OriginalOf(rel), ModifiedOf(rel)} :
    p \in DOMAIN files => (p \in DOMAIN files0 /\ files[p] = files0[p])

\* C3 as stated: a file with an excluded directory component, an excluded
\* name, or an excluded extension - the substring of its name from the last
\* "." inclusive - never gets an entry under Original/ or Modified/.
C3_ExcludedByLastDotExt ==
  pc \notin {"start", "idle"} =>
    \A rel \in RelFiles : ExcludedBy(rel, ExtLastDot) => NoEntryProduced(rel)

\* C3 amended: the same with the extension that os.path.splitext computes -
\* the substring from the last "." inclusive when some character before
\* that "." is not a ".", and empty otherwise.
C3_ExcludedNeverExported ==
  pc \notin {"start", "idle"} =>
    \A rel \in RelFiles : Excluded(rel) => NoEntryProduced(rel)

C3_Witness ==
  /\ pc = "done"
  /\ exclude_exts = {FileDotL}
  /\ InA0(<<FileAL>>) /\ ~SameInBoth(<<FileAL>>)
  /\ OriginalOf(<<FileAL>>) \notin DOMAIN files
  /\ OriginalOf(<<DirD, FileDotL>>) \in DOMAIN files

\* the value a setting should have: the command line's when given, else the
\* configuration document's when it defines the key, else the default
Expected(cli, key, default) ==
  IF cli.given THEN cli.value
  ELSE IF yaml.exists /\ key \in DOMAIN yaml.doc THEN yaml.doc[key] ELSE default

Flag(b) == IF b THEN Given(TRUE) ELSE NotGiven

\* C4: every effective setting is the CLI value when the flag is given,
\* else the configuration value when the key is defined, else the default.
C4_CliOverConfigOverDefault ==
  pc \notin {"start", "idle"} =>
    /\ exclude_dirs = Expected(argv.exclude_dirs, "exclude_dirs", DEFAULT_EXCLUDE_DIRS)
    /\ exclude_files = Expected(argv.exclude_files, "exclude_files", DEFAULT_EXCLUDE_FILES)
    /\ exclude_exts = Expected(argv.exclude_exts, "exclude_exts", DEFAULT_EXCLUDE_EXTS)
    /\ output_root = Expected(argv.output_root, "output_root", DEFAULT_OUTPUT_ROOT)
    /\ verbose = Expected(Flag(argv.verbose), "verbose", DEFAULT_VERBOSE)
    /\ update_copyright = Expected(Flag(argv.update_copyright), "update_copyright", FALSE)
    /\ use_new_format = Expected(Flag(argv.new_copyright_format), "new_copyright_format", FALSE)

StaleUnderOut(fs) == {p \in Under(fs, output_root) : fs[p] = Stale}

\* C5: compare_and_extract runs only on a cleaned output root, so that no
\* file of a previous run is under it once the comparison has begun or the
\* run is complete; and when the deletion fails the run exits with a
\* non-zero status, compare_and_extract never runs and no file under the
\* output root is written.
C5_CleanBeforeCompare ==
  /\ compared => StaleUnderOut(files) = {}
  /\ pc = "done" => (compared /\ StaleUnderOut(files) = {})
  /\ pc = "exited" =>
       /\ exit_status # 0 /\ exit_status # Running
       /\ ~compared
       /\ \A p \in Under(files, output_root) :
            p \in DOMAIN files0 /\ files[p] = files0[p]

C5_Witness ==
  /\ pc = "done"
  /\ StaleUnderOut(files0) # {}
  /\ Under(files, output_root) # {}

SourceOf(d) == FolderB \o RelOf(d)

C8_InputTreesReadOnly ==
  \A base \in {FolderA, FolderB} :
    /\ Under(files, base) = Under(files0, base)
    /\ \A p \in Under(files0, base) : p \in DOMAIN files /\ files[p] = files0[p]
    /\ {d \in dirs : IsPrefix(base, d)} = {d \in MkDirs(files0) : IsPrefix(base, d)}

\* C6: a file processed as text is written out equal to the source outside
\* the matched spans, each match replaced by the target line; in particular
\* a source without a match is written out byte-identical.
C6_OutsideSpansByteExact ==
  (rphase # "src" /\ rphase # "idle" /\ Decodable(src)) => dst1 = re_sub(src, fmt)

\* C9: rewriting the output of the rewrite changes nothing.
C9_RewriteIdempotent ==
  rphase = "twice" => dst2 = dst1

C9_Witness ==
  /\ rphase = "twice"
  /\ Decodable(src)
  /\ \E i \in 1..Len(src) : pattern(src, i).ok /\ pattern(src, i).g4 = CURRENT_YEAR
  /\ \E i \in 1..Len(src) : src[i] = LF

Contains(s, line) ==
  \E i \in 1..(Len(s) - Len(line) + 1) : SubSeq(s, i, i + Len(line) - 1) = line

\* C10: after the rewrite of a text file no copyright line of the forms the
\* tool produces - old form, old form with a year range, new form - still
\* carries a year other than the current one.
C10_EveryToolLineUpdated ==
  (rphase # "src" /\ rphase # "idle" /\ Decodable(src)) =>
    \A y \in Years \ {CURRENT_YEAR} :
      /\ ~Contains(dst1, LineOld(y))
      /\ ~Contains(dst1, LineNew(y))
      /\ ~Contains(dst1, <<COPYRIGHT, SP, CMARK, SP, "2013", SP, DASH, SP, y, COMMA, SP, SUFFIX>>)

====
